---------------------------- MODULE Spec2Model ----------------------------
(***************************************************************************)
(* Model of the dataset metadata store of LightRAG-lly:                    *)
(*   JsonDatasetStorage  (src/lightrag/kg/dataset_impl.py)                 *)
(*   LazyStorageProxy, DatasetManager                                      *)
(*                       (src/lightrag/api/routers/dataset_routes.py)      *)
(* The coordination service (lightrag/kg/shared_storage.py) and the JSON   *)
(* helpers (lightrag/utils.py) are not part of the sources at hand; they   *)
(* are modelled from sections 4.2 and 6 of the specification.              *)
(*                                                                         *)
(* Python objects are kept in a heap: a record is a dict object, its docs  *)
(* a list object, so that two holders of the same object see each other's  *)
(* in-place changes (dict.copy() is shallow).                              *)
(***************************************************************************)
EXTENDS Integers, Sequences, FiniteSets, TLC

\* ------------------------------------------------------------------ bounds
\* Number of operation calls all tasks together may start in one behaviour.
MaxCalls == 2
\* Number of direct initialize() calls in one behaviour.
MaxInits == 2

\* ---------------------------------------------------------------- universe
Procs == {1, 2}
Tasks == {1, 2}
Ids == {"x", "y"}
\* The same, in the fixed orders used to number heap objects.
ProcOrder == <<1, 2>>
TaskOrder == <<1, 2>>
IdOrder == <<"x", "y">>
Docs == {"d1", "d2"}

NoTask == 0
NoRef == 0

\* A Python dict with an empty key set.
EmptyDict == [k \in {} |-> ""]

\* Caller-supplied metadata dicts (value form: docs holds the sequence).
MetaA == [name |-> "a"]
MetaB == [name |-> "b", description |-> "", created_at |-> "t1",
          updated_at |-> "t1", docs |-> <<"d1">>]
Metas == {MetaA, MetaB}
\* A record whose docs names a document twice, as a caller of upsert can
\* supply it.
MetaD == [name |-> "b", docs |-> <<"d1", "d1">>]

\* ----------------------------------------------------------- dict helpers
\* dict.setdefault(k, v) on a dict value.
SetDefault(d, k, v) ==
    IF k \in DOMAIN d THEN d
    ELSE [f \in (DOMAIN d) \cup {k} |-> IF f = k THEN v ELSE d[f]]

\* Python truthiness of a dict: an empty dict is falsy.
Truthy(d) == DOMAIN d # {}

\* f without the keys in S.
Without(f, S) == [k \in (DOMAIN f) \ S |-> f[k]]

\* dict.update: g's entries override f's.
Updated(f, g) == [k \in (DOMAIN f) \cup (DOMAIN g) |->
                    IF k \in DOMAIN g THEN g[k] ELSE f[k]]

Range(f) == {f[k] : k \in DOMAIN f}

\* list.remove(x): drops the first occurrence of x.
RECURSIVE ListRemove(_, _)
ListRemove(s, x) ==
    IF s = << >> THEN << >>
    ELSE IF Head(s) = x THEN Tail(s)
    ELSE <<Head(s)>> \o ListRemove(Tail(s), x)

InList(s, x) == \E i \in 1..Len(s) : s[i] = x

Count(s, x) == Cardinality({i \in 1..Len(s) : s[i] = x})

\* ------------------------------------------------------------------- heap
\* A heap h = [d |-> dict objects, l |-> list objects], each a function
\* from the references in use.
NewRef(objs) ==
    CHOOSE n \in 1..(Cardinality(DOMAIN objs) + 1) :
        /\ n \notin DOMAIN objs
        /\ \A m \in 1..(n - 1) : m \in DOMAIN objs

\* A fresh dict object (and list object for its docs) holding value v.
AllocRec(h, v) ==
    LET lr == NewRef(h.l)
        dr == NewRef(h.d)
        dv == [k \in DOMAIN v |-> IF k = "docs" THEN lr ELSE v[k]]
        l2 == IF "docs" \in DOMAIN v THEN Updated(h.l, lr :> v.docs) ELSE h.l
    IN  [h |-> [d |-> Updated(h.d, dr :> dv), l |-> l2], ref |-> dr]

\* Fresh objects for every record of the value table tv with key in S;
\* t accumulates the id -> reference mapping.
RECURSIVE AllocAll(_, _, _, _)
AllocAll(h, t, tv, S) ==
    IF S = {} THEN [h |-> h, t |-> t]
    ELSE LET i == CHOOSE k \in S : TRUE
             a == AllocRec(h, tv[i])
         IN  AllocAll(a.h, Updated(t, i :> a.ref), tv, S \ {i})

\* The value of dict object r: docs replaced by the list's content.
Deep(h, r) ==
    [k \in DOMAIN h.d[r] |-> IF k = "docs" THEN h.l[h.d[r][k]] ELSE h.d[r][k]]

\* The value of a table of references.
DeepTable(h, t) == [i \in DOMAIN t |-> Deep(h, t[i])]

\* s without the repetitions of its elements.
RECURSIVE Dedupe(_)
Dedupe(s) ==
    IF s = << >> THEN << >>
    ELSE LET front == Dedupe(SubSeq(s, 1, Len(s) - 1))
             x == s[Len(s)]
         IN  IF InList(front, x) THEN front ELSE Append(front, x)

IndexOf(s, x) == CHOOSE i \in 1..Len(s) : s[i] = x

\* The references a table holds, in IdOrder.
TableRefs(tab) ==
    LET present == SelectSeq(IdOrder, LAMBDA i : i \in DOMAIN tab)
    IN  [n \in 1..Len(present) |-> tab[present[n]]]

\* The references held by the table, the caches and the frames, in a fixed
\* order and without repetition.
RootSeq(tab, cch, frames) ==
    LET held == [n \in 1..Len(TaskOrder) |-> frames[TaskOrder[n]].ref]
    IN  Dedupe(TableRefs(tab) \o TableRefs(cch[1]) \o TableRefs(cch[2])
               \o SelectSeq(held, LAMBDA r : r # NoRef))

\* The docs lists of the dict objects ds (a sequence), without repetition.
ListSeq(h, ds) ==
    LET withDocs == SelectSeq(ds, LAMBDA r : "docs" \in DOMAIN h.d[r])
    IN  Dedupe([n \in 1..Len(withDocs) |-> h.d[withDocs[n]].docs])

\* Garbage collection and renumbering: the objects reachable from the
\* table, the caches and the frames, numbered in the order RootSeq meets
\* them, and the table, caches and frames holding the new numbers.  Object
\* identity and sharing are kept; unreachable objects are dropped.
Canon(h, tab, cch, frames) ==
    LET ds == RootSeq(tab, cch, frames)
        ls == ListSeq(h, ds)
        dnew(r) == IndexOf(ds, r)
        lnew(r) == IndexOf(ls, r)
        obj(n) == h.d[ds[n]]
    IN  [h |-> [d |-> [n \in 1..Len(ds) |->
                        [k \in DOMAIN obj(n) |->
                            IF k = "docs" THEN lnew(obj(n)[k]) ELSE obj(n)[k]]],
                l |-> [n \in 1..Len(ls) |-> h.l[ls[n]]]],
         t |-> [i \in DOMAIN tab |-> dnew(tab[i])],
         c |-> [p \in DOMAIN cch |-> [i \in DOMAIN cch[p] |-> dnew(cch[p][i])]],
         f |-> [t \in DOMAIN frames |->
                 [frames[t] EXCEPT !.ref = IF @ = NoRef THEN NoRef ELSE dnew(@)]]]


\* ------------------------------------------------------------------ state
VARIABLES
    procOf,         \* the process each task runs in
    heap,           \* Python objects: [d |-> dicts, l |-> docs lists]
    table,          \* the namespace's shared table: id -> dict reference
    nsInitialized,  \* try_initialize_namespace has already returned true
    flags,          \* pending-flush flag as seen by each process
    lock,           \* holder of the namespace lock (NoTask: free)
    gate,           \* holder of the data-init lock (NoTask: free)
    file,           \* backing file: [exists |-> , data |-> value table]
    store,          \* per process, how far the Store instance is set up
    proxied,        \* per process, LazyStorageProxy._initialized
    cache,          \* per process, DatasetManager._dataset_cache
    pc,             \* per task, where its call is suspended
    call,           \* per task, the frame of its call in progress
    ret,            \* per task, how its last call ended
    calls,          \* number of calls started so far
    initCalls,      \* per process, number of Store.initialize() invocations
    seeds           \* number of times the table was loaded from the file

vars == <<procOf, heap, table, nsInitialized, flags, lock, gate, file, store, proxied,
          cache, pc, call, ret, calls, initCalls, seeds>>

ProcOf(t) == procOf[t]

\* Store instance set-up levels.
\*   "new"    after __post_init__: _storage_lock, storage_updated, _data None
\*   "locked" initialize() has set _storage_lock and storage_updated
\*   "ready"  initialize() has also set _data
StoreLevels == {"new", "locked", "ready"}

ReadOps == {"get_by_id", "get_by_ids", "filter_keys", "get_dataset",
            "get_dataset_by_exact_name", "search_datasets_by_name",
            "get_datasets_paginated", "is_empty"}
WriteOps == {"upsert", "delete", "create_or_update_dataset", "delete_dataset",
             "add_doc_to_dataset", "remove_doc_from_dataset", "drop"}
StoreOps == ReadOps \cup WriteOps \cup {"index_done_callback"}

\* The frame of a task that is not in a call.
IdleFrame ==
    [op |-> "none", via |-> "store", id |-> "x", doc |-> "d1",
     meta |-> EmptyDict, data |-> EmptyDict, ids |-> {}, loaded |-> EmptyDict,
     ref |-> NoRef, changed |-> FALSE, args |-> EmptyDict]

\* Outcomes of a call.
Results == {"none", "ok", "wrote", "StorageNotInitialized", "TypeError",
            "AttributeError", "IOError", "success", "error", "cached",
            "Cancelled", "duplicated"}

\* The table's content as a value.
TableValue == DeepTable(heap, table)

\* What load_json returns for the backing file: absent file -> None, which
\* every caller turns into the empty table.
FileValue == IF file.exists THEN file.data ELSE EmptyDict


\* ----------------------------------------------------------- call endings
\* A manager whose get_dataset caches what the Store answers, an empty
\* record standing for None, and that does nothing after other calls.
MgrCachesMiss(t, h, tab) ==
    LET f == call[t]
        c == cache[ProcOf(t)]
        found == f.id \in DOMAIN tab /\ Truthy(h.d[tab[f.id]])
        copy == NewRef(h.d)
    IN  IF f.op = "get_dataset"
        THEN [h |-> [h EXCEPT !.d = Updated(h.d,
                        copy :> IF found THEN h.d[tab[f.id]] ELSE EmptyDict)],
              c |-> Updated(c, f.id :> copy)]
        ELSE [h |-> h, c |-> c]

\* DatasetManager's statements after its awaited Store call returned
\* normally, on heap h and table tab: the new heap and the new cache.
MgrAfter(t, h, tab) ==
    LET f == call[t]
        c == cache[ProcOf(t)]
        cached == f.id \in DOMAIN c
        obj == h.d[c[f.id]]
        hasDocs == "docs" \in DOMAIN obj
        lr == IF hasDocs THEN obj.docs ELSE NewRef(h.l)
        old == IF hasDocs THEN h.l[lr] ELSE << >>
        added == IF InList(old, f.doc) THEN old ELSE Append(old, f.doc)
        removed == IF InList(old, f.doc) THEN ListRemove(old, f.doc) ELSE old
        patched(docs) ==
            [h |-> [d |-> Updated(h.d, c[f.id] :> SetDefault(obj, "docs", lr)),
                    l |-> Updated(h.l, lr :> docs)],
             c |-> c]
        found == f.id \in DOMAIN tab /\ Truthy(h.d[tab[f.id]])
        copy == NewRef(h.d)
    IN  CASE f.op = "create_or_update_dataset" ->
                [h |-> h, c |-> Updated(c, f.id :> f.ref)]
          [] f.op = "get_dataset" ->
                IF found
                THEN [h |-> [h EXCEPT !.d = Updated(h.d, copy :> h.d[tab[f.id]])],
                      c |-> Updated(c, f.id :> copy)]
                ELSE [h |-> h, c |-> c]
          [] f.op = "delete_dataset" ->
                [h |-> h, c |-> Without(c, {f.id})]
          [] f.op = "add_doc_to_dataset" ->
                IF cached THEN patched(added) ELSE [h |-> h, c |-> c]
          [] f.op = "remove_doc_from_dataset" ->
                IF cached THEN patched(removed) ELSE [h |-> h, c |-> c]
          [] OTHER -> [h |-> h, c |-> c]

\* The call of task t ends with result res, the Store having left heap h
\* and table tab.  A DatasetManager call whose Store call returned normally
\* runs its cache update before the task can be suspended again.
Finish(t, res, h, tab) ==
    LET p == ProcOf(t)
        after == IF call[t].via = "mgr" /\ res \in {"ok", "wrote"}
                 THEN MgrAfter(t, h, tab)
                 ELSE [h |-> h, c |-> cache[p]]
        same == /\ after.h = heap
                /\ tab = table
                /\ after.c = cache[p]
                /\ call[t].ref = NoRef
        c == IF same
             THEN [h |-> heap, t |-> table, c |-> cache,
                   f |-> [call EXCEPT ![t] = IdleFrame]]
             ELSE Canon(after.h, tab, [cache EXCEPT ![p] = after.c],
                        [call EXCEPT ![t] = IdleFrame])
    IN  /\ pc' = [pc EXCEPT ![t] = "idle"]
        /\ ret' = [ret EXCEPT ![t] = res]
        /\ call' = c.f
        /\ cache' = c.c
        /\ table' = c.t
        /\ heap' = c.h

\* The call of task t goes on to position next with frame f.
Goto(t, next, f, h, tab) ==
    LET same == h = heap /\ tab = table /\ f.ref = call[t].ref
        c == IF same
             THEN [h |-> heap, t |-> table, c |-> cache,
                   f |-> [call EXCEPT ![t] = f]]
             ELSE Canon(h, tab, cache, [call EXCEPT ![t] = f])
    IN  /\ pc' = [pc EXCEPT ![t] = next]
        /\ call' = c.f
        /\ cache' = c.c
        /\ table' = c.t
        /\ heap' = c.h
        /\ UNCHANGED ret

\* ------------------------------------------------- coordination service
\* set_all_update_flags: the pending-flush flag becomes set in every process.
SetAllUpdateFlags == [p \in Procs |-> TRUE]

\* clear_all_update_flags: the flag becomes clear in every process.
ClearAllUpdateFlags == [p \in Procs |-> FALSE]

\* The namespace lock can be taken.
LockFree == lock = NoTask

\* The data-init lock can be taken.
GateFree == gate = NoTask

\* ------------------------------------------------- Store.initialize()
\* Lines 46-51 run when the call starts: the instance gets its lock and its
\* flag handle; an instance that already holds the table keeps it.
EnterInitialize(p) ==
    /\ store' = [store EXCEPT ![p] = IF @ = "new" THEN "locked" ELSE @]
    /\ initCalls' = [initCalls EXCEPT ![p] = @ + 1]

\* A task calls initialize() on its process's Store instance.
StartInitialize(t) ==
    /\ pc[t] = "idle"
    /\ initCalls[1] + initCalls[2] < MaxInits
    /\ EnterInitialize(ProcOf(t))
    /\ pc' = [pc EXCEPT ![t] = "i_gate"]
    /\ call' = [call EXCEPT ![t] = [IdleFrame EXCEPT !.op = "initialize"]]
    /\ ret' = [ret EXCEPT ![t] = "none"]
    /\ UNCHANGED <<procOf, heap, table, nsInitialized, flags, lock, gate,
                   file, proxied, cache, calls, seeds>>

\* initialize() has returned: a direct call ends; a call forwarded by the
\* proxy sets _initialized and goes on with the forwarded operation.
InitDone(t, h, tab) ==
    IF call[t].op = "initialize"
    THEN /\ Finish(t, "ok", h, tab)
         /\ UNCHANGED proxied
    ELSE /\ Goto(t, IF call[t].op = "index_done_callback" THEN "facq" ELSE "acq",
                 call[t], h, tab)
         /\ proxied' = [proxied EXCEPT ![ProcOf(t)] = TRUE]

\* try_initialize_namespace: true for the namespace's first caller only.
TryInitializeNamespace == ~nsInitialized

\* A seeding that does not ask whether the namespace is new.
SeedAlways(need_init) == TRUE

\* "if need_init" (line 60): whether initialize() loads the file and seeds
\* the table.
SeedsTable(need_init) == need_init

\* Lines 52-61: under the data-init lock, ask whether this call is the
\* namespace's first, take the table, and load the file if it is.
InitGate(t) ==
    /\ pc[t] = "i_gate"
    /\ GateFree
    /\ nsInitialized' = TRUE
    /\ store' = [store EXCEPT ![ProcOf(t)] = "ready"]
    /\ IF SeedsTable(TryInitializeNamespace)
       THEN /\ gate' = t
            /\ Goto(t, "i_lock", [call[t] EXCEPT !.loaded = FileValue],
                    heap, table)
            /\ UNCHANGED proxied
       ELSE /\ gate' = gate
            /\ InitDone(t, heap, table)
    /\ UNCHANGED <<procOf, flags, lock, file, calls, initCalls, seeds>>

\* Line 62: take the namespace lock for the seeding.
InitLock(t) ==
    /\ pc[t] = "i_lock"
    /\ LockFree
    /\ lock' = t
    /\ pc' = [pc EXCEPT ![t] = "i_cs"]
    /\ UNCHANGED <<procOf, heap, table, nsInitialized, flags, gate, file, store,
                   proxied, cache, call, ret, calls, initCalls, seeds>>

\* Line 63: self._data.update(loaded_data), then both locks are released.
InitSeed(t) ==
    /\ pc[t] = "i_cs"
    /\ LET a == AllocAll(heap, table, call[t].loaded, DOMAIN call[t].loaded)
       IN  InitDone(t, a.h, a.t)
    /\ seeds' = seeds + 1
    /\ lock' = NoTask
    /\ gate' = NoTask
    /\ UNCHANGED <<procOf, nsInitialized, flags, file, store, calls, initCalls>>


\* ------------------------------------------------- Store operations
\* Arguments of upsert(data) and delete(ids).
UpsertData ==
    {("x" :> EmptyDict), ("x" :> MetaB), ("x" :> MetaB) @@ ("y" :> MetaD)}
DeleteIds == {{"x"}, Ids}

\* The frames a call of op may start with.
Frames(op) ==
    LET f == [IdleFrame EXCEPT !.op = op]
    IN  CASE op = "upsert" -> {[f EXCEPT !.data = d] : d \in UpsertData}
          [] op = "delete" -> {[f EXCEPT !.ids = s] : s \in DeleteIds}
          [] op = "create_or_update_dataset" ->
                {[f EXCEPT !.meta = m] : m \in Metas}
          [] op \in {"add_doc_to_dataset", "remove_doc_from_dataset"} ->
                {[f EXCEPT !.doc = d] : d \in Docs}
          [] OTHER -> {f}

\* What an operation called on a Store instance whose initialize() has not
\* begun does: create_or_update_dataset tests _storage_lock (line 189);
\* drop catches what its body raises (line 285); every other operation
\* enters "async with None".
UninitializedResult(op) ==
    CASE op = "create_or_update_dataset" -> "StorageNotInitialized"
      [] op = "drop" -> "error"
      [] OTHER -> "TypeError"

\* An operation whose body runs without "async with self._storage_lock".
EntryUnlocked(op) == IF op = "index_done_callback" THEN "facq" ELSE "cs"

\* Where an operation first suspends: at its "async with
\* self._storage_lock"; index_done_callback is the flush step alone.
EntryPc(op) == IF op = "index_done_callback" THEN "facq" ELSE "acq"

\* A task calls a Store operation directly on its process's instance.
StoreCall(t) ==
    /\ pc[t] = "idle"
    /\ calls < MaxCalls
    /\ calls' = calls + 1
    /\ \E op \in StoreOps : \E f \in Frames(op) :
          IF store[ProcOf(t)] = "new"
          THEN /\ ret' = [ret EXCEPT ![t] = UninitializedResult(op)]
               /\ UNCHANGED <<pc, call>>
          ELSE /\ pc' = [pc EXCEPT ![t] = EntryPc(op)]
               /\ call' = [call EXCEPT ![t] = f]
               /\ ret' = [ret EXCEPT ![t] = "none"]
    /\ UNCHANGED <<procOf, heap, table, nsInitialized, flags, lock, gate, file, store,
                   proxied, cache, initCalls, seeds>>

\* "async with self._storage_lock": the task enters its critical section,
\* the operation's own or the flush step's.
Acquire(t) ==
    /\ pc[t] \in {"acq", "facq"}
    /\ LockFree
    /\ lock' = t
    /\ pc' = [pc EXCEPT ![t] = IF pc[t] = "acq" THEN "cs" ELSE "fcs"]
    /\ UNCHANGED <<procOf, heap, table, nsInitialized, flags, gate, file, store,
                   proxied, cache, call, ret, calls, initCalls, seeds>>

\* Task t is inside the critical section of operation op on an instance
\* that holds the table.
InCs(t, op) ==
    /\ pc[t] = "cs"
    /\ call[t].op = op
    /\ store[ProcOf(t)] = "ready"

\* The critical section ends and the call returns without a flush step.
Return(t, res, h, tab) ==
    /\ Finish(t, res, h, tab)
    /\ lock' = NoTask
    /\ UNCHANGED <<procOf, nsInitialized, gate, file, store, proxied, calls,
                   initCalls, seeds>>

\* The critical section ends and the call goes on to the flush step.
ToFlush(t, f, h, tab) ==
    /\ Goto(t, "facq", f, h, tab)
    /\ lock' = NoTask
    /\ UNCHANGED <<procOf, nsInitialized, gate, file, store, proxied, calls,
                   initCalls, seeds>>

\* A critical section entered while _data is still None (initialize() is
\* suspended before line 56): the first use of _data raises (in the flush
\* step, len(data_dict) in line 254, reached when the flag is set, is a
\* TypeError; in an operation, a method of None is an AttributeError), the lock
\* is released; drop reports the error instead of raising.
NoDataBody(t) ==
    /\ pc[t] = "cs" \/ (pc[t] = "fcs" /\ flags[ProcOf(t)])
    /\ store[ProcOf(t)] = "locked"
    /\ Return(t, IF call[t].op = "drop" THEN "error"
                 ELSE IF pc[t] = "fcs" THEN "TypeError" ELSE "AttributeError",
              heap, table)
    /\ UNCHANGED flags

\* get_by_id .. is_empty: the table is read under the lock.
ReadBody(t) ==
    /\ \E op \in ReadOps : InCs(t, op)
    /\ Return(t, "ok", heap, table)
    /\ UNCHANGED flags

\* What get_dataset answers for an id the table lacks or whose record is
\* falsy: None.
NoneValue == [None |-> TRUE]

\* get_dataset, lines 106-107, on heap h and table tab: the content of the
\* copy it returns.
GetDataset(h, tab, id) ==
    IF id \in DOMAIN tab /\ Truthy(h.d[tab[id]]) THEN Deep(h, tab[id])
    ELSE NoneValue

\* The task is cancelled while it waits for the namespace lock at the
\* "async with self._storage_lock" that opens its operation: CancelledError
\* leaves the call, whose body has not begun.
Cancel(t) ==
    /\ pc[t] = "acq"
    /\ Finish(t, "Cancelled", heap, table)
    /\ UNCHANGED <<procOf, nsInitialized, flags, lock, gate, file, store,
                   proxied, calls, initCalls, seeds>>

\* An upsert that stores the record of x only.
UpsertFirstKey(t) ==
    /\ InCs(t, "upsert")
    /\ LET a == AllocAll(heap, table, call[t].data, DOMAIN call[t].data \cap {"x"})
       IN  ToFlush(t, [call[t] EXCEPT !.changed = TRUE], a.h, a.t)
    /\ flags' = SetAllUpdateFlags

\* upsert, lines 85-87.
UpsertBody(t) ==
    /\ InCs(t, "upsert")
    /\ LET a == AllocAll(heap, table, call[t].data, DOMAIN call[t].data)
       IN  ToFlush(t, [call[t] EXCEPT !.changed = TRUE], a.h, a.t)
    /\ flags' = SetAllUpdateFlags

\* delete, lines 91-94.
DeleteBody(t) ==
    /\ InCs(t, "delete")
    /\ ToFlush(t, [call[t] EXCEPT !.changed = (call[t].ids \cap DOMAIN table # {})],
               heap, Without(table, call[t].ids))
    /\ flags' = SetAllUpdateFlags

\* The metadata dict after lines 194-197.
WithDefaults(m) ==
    SetDefault(SetDefault(SetDefault(SetDefault(m, "docs", << >>),
        "created_at", ""), "updated_at", ""), "name", "")

\* create_or_update_dataset, lines 192-200.
CreateBody(t) ==
    /\ InCs(t, "create_or_update_dataset")
    /\ LET a == AllocRec(heap, WithDefaults(call[t].meta))
       IN  ToFlush(t, [call[t] EXCEPT !.ref = a.ref, !.changed = TRUE],
                   a.h, Updated(table, call[t].id :> a.ref))
    /\ flags' = SetAllUpdateFlags

\* "if existed" (line 207): the popped record counts when it is truthy.
Existed(t) ==
    /\ call[t].id \in DOMAIN table
    /\ Truthy(heap.d[table[call[t].id]])

\* delete_dataset, lines 205-208.
DeleteDatasetBody(t) ==
    /\ InCs(t, "delete_dataset")
    /\ ToFlush(t, [call[t] EXCEPT !.changed = (call[t].id \in DOMAIN table)],
               heap, Without(table, {call[t].id}))
    /\ flags' = IF Existed(t) THEN SetAllUpdateFlags ELSE flags

\* An append that does not look for doc_id first.
AppendAlways(docs, d) == Append(docs, d)

\* docs after "if doc_id not in docs: docs.append(doc_id)" (lines 223-224).
AddedDocs(docs, d) == IF InList(docs, d) THEN docs ELSE Append(docs, d)

\* An add_doc_to_dataset that makes a record for a dataset it does not
\* find, holding the document, and flushes it.
AddDocCreates(t) ==
    /\ InCs(t, "add_doc_to_dataset")
    /\ LET made == AllocRec(heap, [docs |-> <<call[t].doc>>])
           r == IF Existed(t) THEN table[call[t].id] ELSE made.ref
           h0 == IF Existed(t) THEN heap ELSE made.h
           obj == h0.d[r]
           hasDocs == "docs" \in DOMAIN obj
           lr == IF hasDocs THEN obj.docs ELSE NewRef(h0.l)
           old == IF hasDocs THEN h0.l[lr] ELSE << >>
           h == [d |-> Updated(h0.d, r :> SetDefault(obj, "docs", lr)),
                 l |-> Updated(h0.l, lr :> AddedDocs(old, call[t].doc))]
       IN  ToFlush(t, [call[t] EXCEPT !.changed = TRUE], h,
                   Updated(table, call[t].id :> r))
    /\ flags' = SetAllUpdateFlags

\* add_doc_to_dataset, lines 217-226.
AddDocBody(t) ==
    /\ InCs(t, "add_doc_to_dataset")
    /\ IF ~Existed(t)
       THEN /\ Return(t, "ok", heap, table)
            /\ UNCHANGED flags
       ELSE LET r == table[call[t].id]
                obj == heap.d[r]
                hasDocs == "docs" \in DOMAIN obj
                lr == IF hasDocs THEN obj.docs ELSE NewRef(heap.l)
                old == IF hasDocs THEN heap.l[lr] ELSE << >>
                h == [d |-> Updated(heap.d, r :> SetDefault(obj, "docs", lr)),
                      l |-> Updated(heap.l, lr :> AddedDocs(old, call[t].doc))]
            IN  /\ ToFlush(t, [call[t] EXCEPT !.changed = ~InList(old, call[t].doc)],
                           h, table)
                /\ flags' = SetAllUpdateFlags

\* remove_doc_from_dataset, lines 231-238.
RemoveDocBody(t) ==
    /\ InCs(t, "remove_doc_from_dataset")
    /\ IF ~Existed(t) \/ "docs" \notin DOMAIN heap.d[table[call[t].id]]
       THEN /\ Return(t, "ok", heap, table)
            /\ UNCHANGED flags
       ELSE LET lr == heap.d[table[call[t].id]].docs
                old == heap.l[lr]
                hit == InList(old, call[t].doc)
                h == [heap EXCEPT !.l = Updated(heap.l,
                          lr :> IF hit THEN ListRemove(old, call[t].doc) ELSE old)]
            IN  /\ ToFlush(t, [call[t] EXCEPT !.changed = hit], h, table)
                /\ flags' = IF hit THEN SetAllUpdateFlags ELSE flags

\* A drop that clears the table without marking it updated.
DropUnflagged(t) ==
    /\ InCs(t, "drop")
    /\ ToFlush(t, [call[t] EXCEPT !.changed = TRUE], heap, EmptyDict)
    /\ UNCHANGED flags

\* drop, lines 274-276.
DropBody(t) ==
    /\ InCs(t, "drop")
    /\ ToFlush(t, [call[t] EXCEPT !.changed = TRUE], heap, EmptyDict)
    /\ flags' = SetAllUpdateFlags


\* ------------------------------------------------- the flush step
\* How a call whose flush step ended normally reports: drop returns its
\* status record; "wrote" marks a flush step that wrote the file.
DoneResult(t, wrote) ==
    IF call[t].op = "drop" THEN "success"
    ELSE IF wrote THEN "wrote" ELSE "ok"

\* A call that lets exception e through to its caller.
Reraised(t, e) == e

\* A call that swallows exception e and returns normally.
Swallowed(t, e) == "ok"

\* How a call reports exception e: drop catches it (line 285).
RaisedResult(t, e) == IF call[t].op = "drop" THEN "error" ELSE e

\* The flush step ends and with it the call.
FlushReturn(t, res, h, tab) ==
    /\ Finish(t, res, h, tab)
    /\ lock' = NoTask
    /\ UNCHANGED <<procOf, nsInitialized, gate, store, proxied, calls, initCalls,
                   seeds>>

\* Task t is inside the flush step and finds its process's flag set.
InFlush(t) ==
    /\ pc[t] = "fcs"
    /\ flags[ProcOf(t)]

\* Line 249 finds the flag clear: nothing is written.
FlushSkip(t) ==
    /\ pc[t] = "fcs"
    /\ ~flags[ProcOf(t)]
    /\ FlushReturn(t, DoneResult(t, FALSE), heap, table)
    /\ UNCHANGED <<flags, file>>

\* A flush step that clears its own process's flag only.
ClearOwnFlag(p) == [flags EXCEPT ![p] = FALSE]

\* The flags after line 265.
FlushedFlags(p) == ClearAllUpdateFlags

\* A flush step that writes the record its own call was about, as the
\* table has it, and no other.
FlushWriteOwn(t) ==
    /\ InFlush(t)
    /\ store[ProcOf(t)] = "ready"
    /\ file' = [exists |-> TRUE,
                data |-> [i \in DOMAIN TableValue \cap {call[t].id} |->
                             TableValue[i]]]
    /\ flags' = FlushedFlags(ProcOf(t))
    /\ FlushReturn(t, DoneResult(t, TRUE), heap, table)

\* Lines 250-265, write_json reporting no conflict: the file holds the table.
FlushWrite(t) ==
    /\ InFlush(t)
    /\ store[ProcOf(t)] = "ready"
    /\ file' = [exists |-> TRUE, data |-> TableValue]
    /\ flags' = FlushedFlags(ProcOf(t))
    /\ FlushReturn(t, DoneResult(t, TRUE), heap, table)

\* The contents write_json may leave in the file when it reports a conflict
\* (needs_reload): the table's records, some of them dropped.
CleanedOf(v) == {v, Without(v, {"x"})}

\* A re-load that updates the table from the file without clearing it.
FlushConflictKeeps(t) ==
    /\ InFlush(t)
    /\ store[ProcOf(t)] = "ready"
    /\ \E cleaned \in CleanedOf(TableValue) :
          LET a == AllocAll(heap, table, cleaned, DOMAIN cleaned)
          IN  /\ file' = [exists |-> TRUE, data |-> cleaned]
              /\ FlushReturn(t, DoneResult(t, TRUE), a.h, a.t)
    /\ flags' = FlushedFlags(ProcOf(t))

\* Lines 257-265, write_json reporting a conflict and load_json returning
\* the file: the table is cleared and refilled from it.
FlushConflict(t) ==
    /\ InFlush(t)
    /\ store[ProcOf(t)] = "ready"
    /\ \E cleaned \in CleanedOf(TableValue) :
          LET a == AllocAll(heap, EmptyDict, cleaned, DOMAIN cleaned)
          IN  /\ file' = [exists |-> TRUE, data |-> cleaned]
              /\ FlushReturn(t, DoneResult(t, TRUE), a.h, a.t)
    /\ flags' = FlushedFlags(ProcOf(t))

\* Lines 257-265, a conflict and load_json returning None (the file cannot
\* be read back): the table is kept.
FlushReloadFail(t) ==
    /\ InFlush(t)
    /\ store[ProcOf(t)] = "ready"
    /\ \E cleaned \in CleanedOf(TableValue) :
          file' = [exists |-> TRUE, data |-> cleaned]
    /\ flags' = FlushedFlags(ProcOf(t))
    /\ FlushReturn(t, DoneResult(t, TRUE), heap, table)

\* A failed write after which no flush is pending any more.
FlushFailForgets(t) ==
    /\ InFlush(t)
    /\ store[ProcOf(t)] = "ready"
    /\ FlushReturn(t, RaisedResult(t, "IOError"), heap, table)
    /\ flags' = FlushedFlags(ProcOf(t))
    /\ UNCHANGED file

\* Line 257, write_json raising (the disk write fails): the exception leaves
\* index_done_callback, flags and file as they were.
FlushFail(t) ==
    /\ InFlush(t)
    /\ store[ProcOf(t)] = "ready"
    /\ FlushReturn(t, RaisedResult(t, "IOError"), heap, table)
    /\ UNCHANGED <<flags, file>>

\* ------------------------------------------------- DatasetManager
\* The Store operations DatasetManager's methods forward to.
MgrOps == {"create_or_update_dataset", "get_dataset", "delete_dataset",
           "add_doc_to_dataset", "remove_doc_from_dataset",
           "get_dataset_by_exact_name", "search_datasets_by_name",
           "get_datasets_paginated"}

\* LazyStorageProxy._init, line 224: initialize() is awaited when
\* _initialized is found false.
ProxyMustInit(p) == ~proxied[p]

\* A task calls a DatasetManager method.  get_dataset answers from the
\* cache when it can (lines 279-280); every other call goes through the
\* proxy's wrapper, which awaits _init() and then the Store operation.
MgrCall(t) ==
    /\ pc[t] = "idle"
    /\ calls < MaxCalls
    /\ calls' = calls + 1
    /\ \E op \in MgrOps : \E f \in Frames(op) :
          IF op = "get_dataset" /\ f.id \in DOMAIN cache[ProcOf(t)]
          THEN /\ ret' = [ret EXCEPT ![t] = "ok"]
               /\ UNCHANGED <<pc, call, store, initCalls>>
          ELSE /\ call' = [call EXCEPT ![t] = [f EXCEPT !.via = "mgr"]]
               /\ ret' = [ret EXCEPT ![t] = "none"]
               /\ IF ProxyMustInit(ProcOf(t))
                  THEN /\ EnterInitialize(ProcOf(t))
                       /\ pc' = [pc EXCEPT ![t] = "i_gate"]
                  ELSE /\ pc' = [pc EXCEPT ![t] = EntryPc(op)]
                       /\ UNCHANGED <<store, initCalls>>
    /\ UNCHANGED <<procOf, heap, table, nsInitialized, flags, lock, gate,
                   file, proxied, cache, seeds>>

\* DatasetManager.get_dataset, lines 279-280: the id is in the cache and the
\* cached record is returned at once, the Store not being called.
CacheHit(t) ==
    /\ pc[t] = "idle"
    /\ \E i \in Ids : i \in DOMAIN cache[ProcOf(t)]
    /\ ret' = [ret EXCEPT ![t] = "cached"]
    /\ UNCHANGED <<procOf, heap, table, nsInitialized, flags, lock, gate,
                   file, store, proxied, cache, pc, call, calls, initCalls,
                   seeds>>

\* The caller of DatasetManager.get_dataset modifies the record it was
\* handed, which is the object the cache keeps (lines 282-285): on a miss
\* that object is the copy Store.get_dataset made (data.copy(), line 107 of
\* dataset_impl.py).  Only such copies are modified here, never an object
\* that is itself a record of the table.
ModifyReturned(t) ==
    /\ pc[t] = "idle"
    /\ calls < MaxCalls
    /\ calls' = calls + 1
    /\ \E i \in DOMAIN cache[ProcOf(t)] : \E how \in {"append", "remove", "rename"} :
       \E d \in Docs :
          LET r == cache[ProcOf(t)][i]
              obj == heap.d[r]
              docs == heap.l[obj.docs]
          IN  /\ \A j \in DOMAIN table : table[j] # r
              /\ "docs" \in DOMAIN obj
              /\ heap' =
                    CASE how = "append" ->
                           [heap EXCEPT !.l[obj.docs] = Append(docs, d)]
                      [] how = "remove" ->
                           [heap EXCEPT !.l[obj.docs] = ListRemove(docs, d)]
                      [] how = "rename" ->
                           [heap EXCEPT !.d[r] = Updated(obj, "name" :> d)]
              /\ heap' # heap
    /\ UNCHANGED <<procOf, table, nsInitialized, flags, lock, gate, file,
                   store, proxied, cache, pc, call, ret, initCalls, seeds>>

\* ------------------------------------------------- get_datasets_paginated
\* Lines 146-149: the bounds page_size is clamped into.
MinPageSize == 10
MaxPageSize == 200

\* The ids of the tables that are paged, in the order in which their records
\* were inserted, which is the order a dict iterates in (line 159).
PageIdOrder == <<"k03", "k01", "k02", "k04", "k05", "k06", "k07", "k08",
                 "k09", "k10", "k11">>

\* The strings that are sort keys here, in the order Python's str
\* comparison puts them in.
StrOrder == <<"", "acme", "beta", "crew", "k01", "k02", "k03", "k04", "k05",
              "k06", "k07", "k08", "k09", "k10", "k11", "t1", "t2", "t3">>
Rank(str) == IndexOf(StrOrder, str)

\* The n-th record inserted: names and timestamps repeat, so that sort keys
\* tie, and the second record has no updated_at.
PageRecord(n) ==
    LET names == <<"acme", "beta", "crew">>
        stamps == <<"t1", "t2", "t3">>
        r == [name |-> names[(n % 3) + 1], description |-> "",
              created_at |-> stamps[(n % 2) + 1],
              updated_at |-> stamps[((n \div 2) % 3) + 1], docs |-> << >>]
    IN  IF n = 2 THEN Without(r, {"updated_at"}) ELSE r

\* The table of the first k records.
PageTable(k) ==
    [i \in {PageIdOrder[n] : n \in 1..k} |-> PageRecord(IndexOf(PageIdOrder, i))]

\* The arguments of a call.
Pages == {-1, 0, 1, 2, 3}
PageSizes == {5, 10, 200, 250}
SortFields == {"created_at", "updated_at", "name", "id", "size"}
SortDirections == {"asc", "desc", "DESC", "down", ""}
PageArgs ==
    [page : Pages, page_size : PageSizes, sort_field : SortFields,
     sort_direction : SortDirections]

\* Lines 144-145.
ClampPage(page) == IF page < 1 THEN 1 ELSE page

\* A page size taken as it comes.
UnclampedPageSize(page_size) == page_size

\* Lines 146-149.
ClampPageSize(page_size) ==
    IF page_size < MinPageSize THEN MinPageSize
    ELSE IF page_size > MaxPageSize THEN MaxPageSize
    ELSE page_size

\* A sort field taken as it comes.
SortFieldKept(sort_field) == sort_field

\* Lines 151-152.
SortFieldOf(sort_field) ==
    IF sort_field \notin {"created_at", "updated_at", "name", "id"}
    THEN "updated_at" ELSE sort_field

\* str.lower() on the sort directions.
Lower(str) == IF str = "DESC" THEN "desc" ELSE str

\* Line 154.
SortDesc(sort_direction) == Lower(sort_direction) = "desc"

\* dict.get(k, default).
Get(d, k, default) == IF k \in DOMAIN d THEN d[k] ELSE default

\* get_pinyin_sort_key on a name in lower-case Latin letters: such names
\* order as the strings they are.
GetPinyinSortKey(name) == name

\* Lines 162-167: the _sort_key of record data under id ds_id.
SortKey(sort_field, ds_id, data) ==
    CASE sort_field = "name" -> GetPinyinSortKey(Get(data, "name", ""))
      [] sort_field = "id" -> ds_id
      [] OTHER -> Get(data, sort_field, "")

\* Lines 159-169: the items collected under the lock, in the dict's order,
\* each a pair of id and copy carrying its _sort_key.
ItemsOf(h, tab, sort_field) ==
    LET order == SelectSeq(PageIdOrder, LAMBDA i : i \in DOMAIN tab)
    IN  [n \in 1..Len(order) |->
            <<order[n],
              Updated(Deep(h, tab[order[n]]),
                      "_sort_key" :> SortKey(sort_field, order[n],
                                             Deep(h, tab[order[n]])))>>]

\* The insertion step of a descending sort got by reversing the ascending
\* one: among items of equal key the later comes first.
SortInsertReversing(sorted, x, sort_desc) ==
    LET stays(e) == IF sort_desc
                    THEN Rank(e[2]["_sort_key"]) > Rank(x[2]["_sort_key"])
                    ELSE Rank(e[2]["_sort_key"]) <= Rank(x[2]["_sort_key"])
        n == Cardinality({i \in 1..Len(sorted) : stays(sorted[i])})
    IN  SubSeq(sorted, 1, n) \o <<x>> \o SubSeq(sorted, n + 1, Len(sorted))

\* list.sort(key=..., reverse=sort_desc), line 172: a stable sort, which
\* with reverse keeps items of equal key in their original order too.  An
\* item is inserted after every item that must not come after it.
SortInsert(sorted, x, sort_desc) ==
    LET stays(e) == IF sort_desc
                    THEN Rank(e[2]["_sort_key"]) >= Rank(x[2]["_sort_key"])
                    ELSE Rank(e[2]["_sort_key"]) <= Rank(x[2]["_sort_key"])
        n == Cardinality({i \in 1..Len(sorted) : stays(sorted[i])})
    IN  SubSeq(sorted, 1, n) \o <<x>> \o SubSeq(sorted, n + 1, Len(sorted))

RECURSIVE Sorted(_, _)
Sorted(items, sort_desc) ==
    IF items = << >> THEN << >>
    ELSE SortInsert(Sorted(SubSeq(items, 1, Len(items) - 1), sort_desc),
                    items[Len(items)], sort_desc)

\* A slice that starts at the page's own number of pages.
SliceAfterPage(page, page_size) == page * page_size

\* Line 180.
SliceStart(page, page_size) == (page - 1) * page_size

\* items[start:end], line 183.
Slice(items, start, end) ==
    LET last == IF end < Len(items) THEN end ELSE Len(items)
    IN  IF start >= last THEN << >> ELSE SubSeq(items, start + 1, last)

\* get_datasets_paginated, lines 136-183, on heap h and table tab with
\* arguments a: the page and the total.
GetDatasetsPaginated(h, tab, a) ==
    LET page == ClampPage(a.page)
        page_size == ClampPageSize(a.page_size)
        sort_field == SortFieldOf(a.sort_field)
        sorted == Sorted(ItemsOf(h, tab, sort_field), SortDesc(a.sort_direction))
        items == [n \in 1..Len(sorted) |->
                     <<sorted[n][1], Without(sorted[n][2], {"_sort_key"})>>]
        start == SliceStart(page, page_size)
    IN  [items |-> Slice(items, start, start + page_size), total |-> Len(items)]

\* A task calls get_datasets_paginated on its process's instance.
PageCall(t) ==
    /\ pc[t] = "idle"
    /\ calls < MaxCalls
    /\ calls' = calls + 1
    /\ store[ProcOf(t)] = "ready"
    /\ \E a \in PageArgs :
          call' = [call EXCEPT ![t] = [IdleFrame EXCEPT
                      !.op = "get_datasets_paginated", !.args = a]]
    /\ pc' = [pc EXCEPT ![t] = EntryPc("get_datasets_paginated")]
    /\ ret' = [ret EXCEPT ![t] = "none"]
    /\ UNCHANGED <<procOf, heap, table, nsInitialized, flags, lock, gate,
                   file, store, proxied, cache, initCalls, seeds>>

\* The critical section of get_datasets_paginated and what follows it: the
\* call returns the page and the total, here with its arguments.
PageBody(t) ==
    /\ InCs(t, "get_datasets_paginated")
    /\ Return(t, [args |-> call[t].args,
                  result |-> GetDatasetsPaginated(heap, table, call[t].args)],
              heap, table)
    /\ UNCHANGED flags

\* ------------------------------------------------- lookups by name
\* Where names are looked up, a string is the sequence of its characters.
\* str.lower() on a character: the upper-case letters and what they become.
LowerChar(c) == IF c = "A" THEN "a" ELSE IF c = "C" THEN "c" ELSE c

\* str.lower().
LowerChars(str) == [n \in 1..Len(str) |-> LowerChar(str[n])]

\* "sub in str" of Python.
IsIn(sub, str) ==
    \E n \in 0..(Len(str) - Len(sub)) : SubSeq(str, n + 1, n + Len(sub)) = sub

\* The names stored and the names and keywords asked for.
StoredNames == {<<"a", "c">>, <<"A", "C">>, <<"a">>, <<"c", "a", "C">>}
Queries == {<<"A", "c">>, <<"a">>, <<"C">>, <<"c", "c">>, << >>}
NameRecords == {[name |-> n] : n \in StoredNames} \cup {[docs |-> << >>]}

\* The tables names are looked up in: up to MaxNamed records, inserted in
\* PageIdOrder.
MaxNamed == 2
NameTables ==
    UNION {[{PageIdOrder[n] : n \in 1..k} -> NameRecords] : k \in 0..MaxNamed}

\* The order in which a loop over the table meets the ids.  (Between x and
\* y the order of insertion is not kept; only lookups whose answer does not
\* depend on it are made on such tables.)
DictOrder == PageIdOrder \o IdOrder

\* A match by containment where equality is meant.
NameContained(ds_name, name) == IsIn(LowerChars(name), LowerChars(ds_name))

\* Line 117.
NameMatches(ds_name, name) == LowerChars(ds_name) = LowerChars(name)

\* get_dataset_by_exact_name, lines 113-119, on heap h and table tab: a
\* copy of the first record, in the dict's order, whose name matches; None
\* when the loop ends without a match.
GetDatasetByExactName(h, tab, name) ==
    LET order == SelectSeq(DictOrder, LAMBDA i : i \in DOMAIN tab)
        hits == SelectSeq(order,
                   LAMBDA i : NameMatches(Get(h.d[tab[i]], "name", << >>), name))
    IN  IF hits = << >> THEN NoneValue ELSE Deep(h, tab[hits[1]])

\* A containment test that minds the case of the letters.
KeywordInAsWritten(keyword, name) == IsIn(keyword, name)

\* Line 132.
KeywordIn(keyword, name) == IsIn(LowerChars(keyword), LowerChars(name))

\* search_datasets_by_name, lines 128-134.
SearchDatasetsByName(h, tab, keyword) ==
    LET hits == {i \in DOMAIN tab :
                    KeywordIn(keyword, Get(h.d[tab[i]], "name", << >>))}
    IN  [i \in hits |-> Deep(h, tab[i])]

NameOps == {"get_dataset_by_exact_name", "search_datasets_by_name"}

\* A task calls one of the lookups by name on its process's instance.
NameCall(t) ==
    /\ pc[t] = "idle"
    /\ calls < MaxCalls
    /\ calls' = calls + 1
    /\ store[ProcOf(t)] = "ready"
    /\ \E op \in NameOps : \E q \in Queries :
          /\ call' = [call EXCEPT ![t] = [IdleFrame EXCEPT
                         !.op = op, !.args = [name |-> q]]]
          /\ pc' = [pc EXCEPT ![t] = EntryPc(op)]
    /\ ret' = [ret EXCEPT ![t] = "none"]
    /\ UNCHANGED <<procOf, heap, table, nsInitialized, flags, lock, gate,
                   file, store, proxied, cache, initCalls, seeds>>

\* The critical section of a lookup by name: the call returns what it
\* found, here with the operation and its argument.
NameBody(t) ==
    /\ \E op \in NameOps : InCs(t, op)
    /\ Return(t, [op |-> call[t].op,
                  name |-> call[t].args.name,
                  result |-> IF call[t].op = "get_dataset_by_exact_name"
                             THEN GetDatasetByExactName(heap, table,
                                                        call[t].args.name)
                             ELSE SearchDatasetsByName(heap, table,
                                                       call[t].args.name)],
              heap, table)
    /\ UNCHANGED flags

\* ------------------------------------------------- the create_dataset route
\* The names requests carry, as character sequences.
RequestNames == {<<"A", "c">>, <<" ", "a", "c", " ">>, <<"a">>}

\* str.strip(): the blanks at both ends removed.
RECURSIVE Strip(_)
Strip(str) ==
    IF str = << >> THEN str
    ELSE IF Head(str) = " " THEN Strip(Tail(str))
    ELSE IF str[Len(str)] = " " THEN Strip(SubSeq(str, 1, Len(str) - 1))
    ELSE str

\* uuid4 gives an id no record and no other request has.
FreshIds ==
    {i \in Ids : /\ i \notin DOMAIN table
                 /\ \A u \in Tasks : pc[u] = "idle" \/ call[u].id # i}

\* Lines 389-395: the record the route stores.
NewDataset(name_lower) ==
    [name |-> name_lower, description |-> "", created_at |-> "t1",
     updated_at |-> "t1", docs |-> << >>]

\* A create_dataset request arrives (lines 375-381): the name is stripped
\* and lowered and dataset_manager.get_dataset_by_name is awaited.  The id
\* that line 388 will draw is fixed here, uuid4 depending on nothing.
CreateDatasetCall(t) ==
    /\ pc[t] = "idle"
    /\ calls < MaxCalls
    /\ calls' = calls + 1
    /\ proxied[ProcOf(t)]
    /\ \E n \in RequestNames : \E i \in FreshIds :
          call' = [call EXCEPT ![t] = [IdleFrame EXCEPT
                      !.op = "get_dataset_by_exact_name", !.via = "route",
                      !.id = i, !.args = [name |-> LowerChars(Strip(n))]]]
    /\ pc' = [pc EXCEPT ![t] = "acq"]
    /\ ret' = [ret EXCEPT ![t] = "none"]
    /\ UNCHANGED <<procOf, heap, table, nsInitialized, flags, lock, gate,
                   file, store, proxied, cache, initCalls, seeds>>

\* "if existing" (line 382) on what get_dataset_by_exact_name returned.
Existing(h, tab, name_lower) ==
    LET existing == GetDatasetByExactName(h, tab, name_lower)
    IN  existing # NoneValue /\ Truthy(existing)

\* The lookup's critical section and the route's lines 382-397: a match
\* ends the request with status "duplicated"; without one the route builds
\* the record and awaits dataset_manager.create_or_update_dataset, whose
\* normal end is the route's status "success".
CreateDatasetLookup(t) ==
    /\ InCs(t, "get_dataset_by_exact_name")
    /\ call[t].via = "route"
    /\ IF Existing(heap, table, call[t].args.name)
       THEN Return(t, "duplicated", heap, table)
       ELSE /\ Goto(t, "acq",
                    [call[t] EXCEPT !.op = "create_or_update_dataset",
                                    !.via = "mgr",
                                    !.meta = NewDataset(call[t].args.name)],
                    heap, table)
            /\ lock' = NoTask
            /\ UNCHANGED <<procOf, nsInitialized, gate, file, store, proxied,
                           calls, initCalls, seeds>>
    /\ UNCHANGED flags

\* ------------------------------------------------- specifications
NoFile == [exists |-> FALSE, data |-> EmptyDict]
SeedFile == [exists |-> TRUE, data |-> ("x" :> MetaB)]

\* The deployment after construction: no instance initialized, the table
\* empty, the file as an earlier deployment left it.
Constructed ==
    /\ heap = [d |-> EmptyDict, l |-> EmptyDict]
    /\ table = EmptyDict
    /\ nsInitialized = FALSE
    /\ flags = [p \in Procs |-> FALSE]
    /\ lock = NoTask
    /\ gate = NoTask
    /\ file \in {NoFile, SeedFile}
    /\ store = [p \in Procs |-> "new"]
    /\ proxied = [p \in Procs |-> FALSE]
    /\ cache = [p \in Procs |-> EmptyDict]
    /\ pc = [t \in Tasks |-> "idle"]
    /\ call = [t \in Tasks |-> IdleFrame]
    /\ ret = [t \in Tasks |-> "none"]
    /\ calls = 0
    /\ initCalls = [p \in Procs |-> 0]
    /\ seeds = 0

\* Two processes, one task in each.
Init ==
    /\ Constructed
    /\ procOf = [t \in Tasks |-> t]

\* One process, both tasks in it.
InitTasks ==
    /\ Constructed
    /\ procOf = [t \in Tasks |-> 1]

\* Steps of a Store operation once called.
StoreStep(t) ==
    \/ InitGate(t)
    \/ InitLock(t)
    \/ InitSeed(t)
    \/ Acquire(t)
    \/ ReadBody(t)
    \/ UpsertBody(t)
    \/ DeleteBody(t)
    \/ CreateBody(t)
    \/ DeleteDatasetBody(t)
    \/ AddDocBody(t)
    \/ RemoveDocBody(t)
    \/ DropBody(t)
    \/ FlushSkip(t)
    \/ FlushWrite(t)
    \/ FlushConflict(t)

\* Disk failures.
IoFailure(t) ==
    \/ FlushReloadFail(t)
    \/ FlushFail(t)

\* The tasks of two processes calling their Store instances directly.
Next ==
    \E t \in Tasks :
        \/ StartInitialize(t)
        \/ StoreCall(t)
        \/ StoreStep(t)
        \/ IoFailure(t)

Spec == Init /\ [][Next]_vars

\* The tasks of one process calling its Store instance directly: a call
\* can find the instance inside another task's initialize().
NextTasks ==
    \E t \in Tasks :
        \/ StartInitialize(t)
        \/ StoreCall(t)
        \/ NoDataBody(t)
        \/ StoreStep(t)
        \/ IoFailure(t)

SpecTasks == InitTasks /\ [][NextTasks]_vars

\* One process whose tasks all go through its DatasetManager; the disk may
\* fail, write_json reports no conflicts.
InitMgr == InitTasks

NextMgr ==
    \E t \in Tasks :
        \/ MgrCall(t)
        \/ InitGate(t)
        \/ InitLock(t)
        \/ InitSeed(t)
        \/ Acquire(t)
        \/ ReadBody(t)
        \/ CreateBody(t)
        \/ DeleteDatasetBody(t)
        \/ AddDocBody(t)
        \/ RemoveDocBody(t)
        \/ FlushSkip(t)
        \/ FlushWrite(t)
        \/ FlushFail(t)

SpecMgr == InitMgr /\ [][NextMgr]_vars

\* SpecMgr with callers that modify what get_dataset handed them.
NextCaller ==
    \/ NextMgr
    \/ \E t \in Tasks : ModifyReturned(t)

SpecCaller == InitMgr /\ [][NextCaller]_vars

\* A drop() call of task u is in progress.
DropInFlight(u) == pc[u] # "idle" /\ call[u].op = "drop"

\* The steps that mutate the namespace: the seeding of initialize() and the
\* critical sections of the mutating operations.
Mutates(t) ==
    \/ InitSeed(t)
    \/ UpsertBody(t)
    \/ DeleteBody(t)
    \/ CreateBody(t)
    \/ DeleteDatasetBody(t)
    \/ AddDocBody(t)
    \/ RemoveDocBody(t)
    \/ DropBody(t)

\* The tasks of one process calling its Store instance directly, no task
\* mutating the namespace while another task's drop() is in progress.
NextQuiet ==
    \E t \in Tasks :
        \/ StartInitialize(t)
        \/ StoreCall(t)
        \/ NoDataBody(t)
        \/ InitGate(t)
        \/ InitLock(t)
        \/ Acquire(t)
        \/ ReadBody(t)
        \/ (\A u \in Tasks \ {t} : ~DropInFlight(u)) /\ Mutates(t)
        \/ FlushSkip(t)
        \/ FlushWrite(t)
        \/ FlushConflict(t)
        \/ IoFailure(t)

SpecQuiet == InitTasks /\ [][NextQuiet]_vars

\* The mutating operations that have no result of their own to report a
\* failure in.
RaisingOps == WriteOps \ {"drop"}

\* The tasks of one process calling the mutating operations, through the
\* DatasetManager where it has the method and directly on the Store
\* instance otherwise, on a disk whose writes may fail.
NextWrites ==
    \E t \in Tasks :
        \/ StartInitialize(t)
        \/ StoreCall(t) /\ call'[t].op \in {"upsert", "delete"}
        \/ MgrCall(t) /\ call'[t].op \in RaisingOps
        \/ InitGate(t)
        \/ InitLock(t)
        \/ InitSeed(t)
        \/ Acquire(t)
        \/ UpsertBody(t)
        \/ DeleteBody(t)
        \/ CreateBody(t)
        \/ DeleteDatasetBody(t)
        \/ AddDocBody(t)
        \/ RemoveDocBody(t)
        \/ FlushSkip(t)
        \/ FlushWrite(t)
        \/ FlushFail(t)

SpecWrites == InitTasks /\ [][NextWrites]_vars

\* An initialized instance whose table holds one of the tables that are
\* paged, as does the file.
InitPage ==
    /\ \E k \in {0, 3, 11} :
          LET a == AllocAll([d |-> EmptyDict, l |-> EmptyDict], EmptyDict,
                            PageTable(k), DOMAIN PageTable(k))
          IN  /\ heap = a.h
              /\ table = a.t
              /\ file = [exists |-> TRUE, data |-> PageTable(k)]
    /\ nsInitialized = TRUE
    /\ flags = [p \in Procs |-> FALSE]
    /\ lock = NoTask
    /\ gate = NoTask
    /\ store = [p \in Procs |-> IF p = 1 THEN "ready" ELSE "new"]
    /\ proxied = [p \in Procs |-> FALSE]
    /\ cache = [p \in Procs |-> EmptyDict]
    /\ pc = [t \in Tasks |-> "idle"]
    /\ call = [t \in Tasks |-> IdleFrame]
    /\ ret = [t \in Tasks |-> "none"]
    /\ calls = 0
    /\ initCalls = [p \in Procs |-> IF p = 1 THEN 1 ELSE 0]
    /\ seeds = 1
    /\ procOf = [t \in Tasks |-> 1]

\* The tasks that page or look up names.
Pagers == {1}

\* get_datasets_paginated called on tables that no one changes.
NextPage ==
    \E t \in Pagers :
        \/ PageCall(t)
        \/ Acquire(t)
        \/ PageBody(t)

SpecPage == InitPage /\ [][NextPage]_vars

\* An initialized instance whose table holds one of the tables names are
\* looked up in, as does the file.
InitNames ==
    /\ \E tv \in NameTables :
          LET a == AllocAll([d |-> EmptyDict, l |-> EmptyDict], EmptyDict,
                            tv, DOMAIN tv)
          IN  /\ heap = a.h
              /\ table = a.t
              /\ file = [exists |-> TRUE, data |-> tv]
    /\ nsInitialized = TRUE
    /\ flags = [p \in Procs |-> FALSE]
    /\ lock = NoTask
    /\ gate = NoTask
    /\ store = [p \in Procs |-> IF p = 1 THEN "ready" ELSE "new"]
    /\ proxied = [p \in Procs |-> FALSE]
    /\ cache = [p \in Procs |-> EmptyDict]
    /\ pc = [t \in Tasks |-> "idle"]
    /\ call = [t \in Tasks |-> IdleFrame]
    /\ ret = [t \in Tasks |-> "none"]
    /\ calls = 0
    /\ initCalls = [p \in Procs |-> IF p = 1 THEN 1 ELSE 0]
    /\ seeds = 1
    /\ procOf = [t \in Tasks |-> 1]

\* The lookups by name called on tables that no one changes.
NextNames ==
    \E t \in Pagers :
        \/ NameCall(t)
        \/ Acquire(t)
        \/ NameBody(t)

SpecNames == InitNames /\ [][NextNames]_vars

\* Process 1 reads datasets through its DatasetManager while process 2
\* creates, updates and deletes them on its own Store instance; the disk
\* does not fail.
NextStale ==
    \/ MgrCall(1) /\ call'[1].op = "get_dataset"
    \/ CacheHit(1)
    \/ StartInitialize(2)
    \/ StoreCall(2) /\ call'[2].op \in {"create_or_update_dataset",
                                          "delete_dataset"}
    \/ \E t \in Tasks :
          \/ InitGate(t)
          \/ InitLock(t)
          \/ InitSeed(t)
          \/ Acquire(t)
          \/ ReadBody(t)
          \/ CreateBody(t)
          \/ DeleteDatasetBody(t)
          \/ FlushSkip(t)
          \/ FlushWrite(t)

SpecStale == Init /\ [][NextStale]_vars

\* The tasks of two processes calling upsert, delete and get_by_ids, any of
\* them liable to be cancelled while it waits for the lock; the disk does
\* not fail.
NextCancel ==
    \E t \in Tasks :
        \/ StartInitialize(t)
        \/ StoreCall(t) /\ call'[t].op \in {"upsert", "delete", "get_by_ids"}
        \/ Cancel(t)
        \/ InitGate(t)
        \/ InitLock(t)
        \/ InitSeed(t)
        \/ Acquire(t)
        \/ ReadBody(t)
        \/ UpsertBody(t)
        \/ DeleteBody(t)
        \/ FlushSkip(t)
        \/ FlushWrite(t)

SpecCancel == Init /\ [][NextCancel]_vars

\* The tasks of two processes calling create_or_update_dataset and
\* index_done_callback on a disk whose writes may fail.
NextRetry ==
    \E t \in Tasks :
        \/ StartInitialize(t)
        \/ StoreCall(t) /\ call'[t].op \in {"create_or_update_dataset",
                                              "index_done_callback"}
        \/ InitGate(t)
        \/ InitLock(t)
        \/ InitSeed(t)
        \/ Acquire(t)
        \/ CreateBody(t)
        \/ FlushSkip(t)
        \/ FlushWrite(t)
        \/ FlushFail(t)

SpecRetry == Init /\ [][NextRetry]_vars

\* An empty deployment whose DatasetManagers have made their first call,
\* the two tasks serving requests in one process or in two.
InitRoute ==
    /\ heap = [d |-> EmptyDict, l |-> EmptyDict]
    /\ table = EmptyDict
    /\ file = NoFile
    /\ nsInitialized = TRUE
    /\ flags = [p \in Procs |-> FALSE]
    /\ lock = NoTask
    /\ gate = NoTask
    /\ procOf \in {[t \in Tasks |-> 1], [t \in Tasks |-> t]}
    /\ store = [p \in Procs |-> IF \E t \in Tasks : procOf[t] = p
                                 THEN "ready" ELSE "new"]
    /\ proxied = [p \in Procs |-> store[p] = "ready"]
    /\ initCalls = [p \in Procs |-> IF store[p] = "ready" THEN 1 ELSE 0]
    /\ cache = [p \in Procs |-> EmptyDict]
    /\ pc = [t \in Tasks |-> "idle"]
    /\ call = [t \in Tasks |-> IdleFrame]
    /\ ret = [t \in Tasks |-> "none"]
    /\ calls = 0
    /\ seeds = 1

\* The tasks serving create_dataset requests.
NextRoute ==
    \E t \in Tasks :
        \/ CreateDatasetCall(t)
        \/ Acquire(t)
        \/ CreateDatasetLookup(t)
        \/ CreateBody(t)
        \/ FlushSkip(t)
        \/ FlushWrite(t)

SpecRoute == InitRoute /\ [][NextRoute]_vars

\* The tasks of two processes calling upsert, delete and
\* index_done_callback on a disk whose writes succeed, with or without a
\* conflict, the file being readable afterwards.
NextReload ==
    \E t \in Tasks :
        \/ StartInitialize(t)
        \/ StoreCall(t) /\ call'[t].op \in {"upsert", "delete", "index_done_callback"}
        \/ InitGate(t)
        \/ InitLock(t)
        \/ InitSeed(t)
        \/ Acquire(t)
        \/ UpsertBody(t)
        \/ DeleteBody(t)
        \/ FlushSkip(t)
        \/ FlushWrite(t)
        \/ FlushConflict(t)

SpecReload == Init /\ [][NextReload]_vars

\* An initialize() call is in progress.
InitInFlight == \E u \in Tasks : pc[u] \in {"i_gate", "i_lock", "i_cs"}

\* Direct Store calls of two processes on a disk that does not fail, no
\* call overlapping an initialize().
NextNoFail ==
    \E t \in Tasks :
        \/ (\A u \in Tasks : pc[u] = "idle") /\ StartInitialize(t)
        \/ ~InitInFlight /\ StoreCall(t)
        \/ InitGate(t)
        \/ InitLock(t)
        \/ InitSeed(t)
        \/ Acquire(t)
        \/ ReadBody(t)
        \/ UpsertBody(t)
        \/ DeleteBody(t)
        \/ CreateBody(t)
        \/ DeleteDatasetBody(t)
        \/ AddDocBody(t)
        \/ RemoveDocBody(t)
        \/ DropBody(t)
        \/ FlushSkip(t)
        \/ FlushWrite(t)
        \/ FlushConflict(t)

SpecNoFail == Init /\ [][NextNoFail]_vars

TypeOK ==
    /\ lock \in Tasks \cup {NoTask}
    /\ gate \in Tasks \cup {NoTask}
    /\ \A p \in Procs : store[p] \in StoreLevels
    /\ \A t \in Tasks : ret[t] \in Results
    /\ Range(table) \subseteq DOMAIN heap.d
    /\ DOMAIN table \subseteq Ids

\* ------------------------------------------------- properties
\* Task t takes a step of the call it is in.
Moves(t) == pc'[t] # pc[t] \/ ret'[t] # ret[t]

\* No call is in progress.
Quiescent == \A t \in Tasks : pc[t] = "idle"

\* C1: for one LazyStorageProxy, under any interleaving of forwarded calls,
\* the wrapped Store's initialize() is invoked exactly once (never a second
\* time), and a forwarded operation runs only after initialize() returned.
C1_InitializeOnce ==
    /\ \A p \in Procs : initCalls[p] <= 1
    /\ \A t \in Tasks :
          pc[t] \in {"acq", "cs", "facq", "fcs"} => proxied[ProcOf(t)]

\* C2: without I/O failure, once every call has returned on a seeded
\* namespace, the backing file's content equals the shared table and no
\* process has its pending-flush flag set.
C2_QuiescentFileIsTable ==
    (Quiescent /\ seeds = 1) =>
        /\ FileValue = TableValue
        /\ \A p \in Procs : ~flags[p]

\* A flush step of task t that finds its process's flag set and ends
\* normally: it wrote the backing file.
FlushWrote(t) ==
    /\ pc[t] = "fcs"
    /\ flags[ProcOf(t)]
    /\ pc'[t] = "idle"
    /\ ret'[t] \in {"wrote", "success"}

\* A flush step of task t that finds its process's flag clear.
FlushUnflagged(t) ==
    /\ pc[t] = "fcs"
    /\ ~flags[ProcOf(t)]
    /\ pc'[t] # "fcs"

\* C3: right after a flush step that wrote the file without error the
\* pending-flush flag is clear in every process, and a flush step whose
\* process's flag is not set changes neither the file nor any flag.
C3_FlushClearsEveryFlag ==
    [][\A t \in Tasks :
          /\ FlushWrote(t) => \A p \in Procs : ~flags'[p]
          /\ FlushUnflagged(t) => file' = file /\ flags' = flags]_vars

\* A flush step of one process wrote the file and left every flag clear,
\* the other process having a Store instance of its own.
C3_Witness ==
    /\ store[1] = "ready" /\ store[2] = "ready"
    /\ \E t \in Tasks : ret[t] = "wrote"
    /\ \A p \in Procs : ~flags[p]

\* Task t is inside a critical section that accesses the table.
InTableSection(t) == pc[t] \in {"cs", "fcs", "i_cs"}

\* C4: a task is inside a table-accessing critical section (an operation's
\* body, initialize()'s seeding, the flush step) only while it holds the
\* namespace lock, so no two tasks are inside one at the same time, and the
\* table changes only in a step of the lock's holder.
C4_TableAccessUnderLock ==
    /\ [](\A t \in Tasks : InTableSection(t) => lock = t)
    /\ [](\A t, u \in Tasks : InTableSection(t) /\ InTableSection(u) => t = u)
    /\ [][TableValue' # TableValue =>
             lock \in Tasks /\ InTableSection(lock) /\ Moves(lock)]_vars

\* One task is inside its critical section while the other waits for the
\* lock.
C4_Witness ==
    \E t, u \in Tasks :
        /\ InTableSection(t)
        /\ pc[u] \in {"acq", "facq", "i_lock"}

\* Task t calls a domain operation on a Store instance whose initialize()
\* has not been called (drop, which reports a status record, is not one).
CallsUninitialized(t) ==
    /\ pc[t] = "idle"
    /\ store[ProcOf(t)] = "new"
    /\ calls' = calls + 1
    /\ ret'[t] # ret[t]
    /\ ret'[t] # "error"

\* C5: every Store domain operation invoked before initialize() fails with
\* StorageNotInitialized and changes nothing.
C5_UniformNotInitialized ==
    [][\A t \in Tasks :
          CallsUninitialized(t) =>
              /\ ret'[t] = "StorageNotInitialized"
              /\ UNCHANGED <<table, heap, flags, file>>]_vars


\* The docs list of the table's record id; empty when there is none.
DocsOf(id) ==
    IF id \in DOMAIN table /\ "docs" \in DOMAIN heap.d[table[id]]
    THEN heap.l[heap.d[table[id]].docs]
    ELSE << >>

\* The docs list of the record process p's manager caches for id.
CachedDocsOf(p, id) ==
    IF id \in DOMAIN cache[p] /\ "docs" \in DOMAIN heap.d[cache[p][id]]
    THEN heap.l[heap.d[cache[p][id]].docs]
    ELSE << >>

\* C6: in one process whose mutations all go through one DatasetManager,
\* whenever no manager call is in progress every cached id is in the table
\* and its cached record (docs included) equals the table's record.
C6_CacheCoherent ==
    Quiescent =>
        \A id \in DOMAIN cache[1] :
            /\ id \in DOMAIN table
            /\ Deep(heap, cache[1][id]) = Deep(heap, table[id])

\* Task t takes a step of an initialize() call.
InitializeStep(t) == pc[t] \in {"i_gate", "i_lock", "i_cs"} /\ Moves(t)

\* C7: whatever the number of instances, processes and initialize() calls,
\* the table is seeded from the file once, by the first initialize(); every
\* step of an initialize() call after the seeding leaves the table as it is.
C7_SeededOnce ==
    /\ [](seeds <= 1)
    /\ [][\A t \in Tasks :
             /\ (InitializeStep(t) /\ seeds = 1) =>
                    TableValue' = TableValue /\ seeds' = seeds
             /\ (InitializeStep(t) /\ seeds' # seeds) =>
                    TableValue' = Updated(TableValue, call[t].loaded)]_vars

\* A second initialize() has returned after the seeding and after a
\* mutation, and the table still holds the mutation.
C7_Witness ==
    /\ Quiescent
    /\ seeds = 1
    /\ initCalls[1] + initCalls[2] = 2
    /\ \E t \in Tasks : ret[t] = "ok" /\ call[t].op = "none"
    /\ \E t \in Tasks : ret[t] = "wrote"
    /\ FileValue = TableValue
    /\ TableValue # SeedFile.data
    /\ TableValue # EmptyDict

\* Task t is in the critical section of operation op on an instance that
\* holds the table, and leaves it.
LeavesCs(t, op) == InCs(t, op) /\ Moves(t)

\* Task t ends the flush step of a call of op that did not change the table.
EndsIdleFlush(t, op) ==
    /\ pc[t] = "fcs"
    /\ call[t].op = op
    /\ ~call[t].changed
    /\ Moves(t)

\* C8: remove_doc_from_dataset(id, doc_id) with the dataset absent or doc_id
\* not in its docs is a no-op in every reachable state: the table is
\* unchanged, the call sets no flag, and the call does not write the file.
C8_RemoveMissingIsNoOp ==
    [][\A t \in Tasks :
          /\ (/\ LeavesCs(t, "remove_doc_from_dataset")
              /\ ~InList(DocsOf(call[t].id), call[t].doc)) =>
                    TableValue' = TableValue /\ flags' = flags
          /\ EndsIdleFlush(t, "remove_doc_from_dataset") =>
                    ret'[t] # "wrote" /\ file' = file]_vars

\* C9: delete_dataset(id) removes the record when id is in the table; when
\* it is not, the call leaves the table unchanged, sets no flag and does not
\* write the file, in every reachable state.
C9_DeleteAbsentIsNoOp ==
    [][\A t \in Tasks :
          /\ LeavesCs(t, "delete_dataset") =>
                IF call[t].id \in DOMAIN table
                THEN \E i \in Ids : i = call[t].id /\ i \notin DOMAIN table'
                ELSE TableValue' = TableValue /\ flags' = flags
          /\ EndsIdleFlush(t, "delete_dataset") =>
                ret'[t] # "wrote" /\ file' = file]_vars

\* No doc id occurs twice in list s.
NoDuplicates(s) == \A d \in Docs : Count(s, d) <= 1

\* A normal return of a DatasetManager.add_doc_to_dataset call of task t.
MgrAddReturns(t) ==
    /\ pc[t] \in {"cs", "fcs"}
    /\ call[t].op = "add_doc_to_dataset"
    /\ call[t].via = "mgr"
    /\ pc'[t] = "idle"
    /\ ret'[t] \in {"ok", "wrote"}

\* C10: add_doc_to_dataset(id, d) on an existing dataset appends d after the
\* present entries, whose order stays, when d is not among them, and leaves
\* docs alone when it is, so that docs holds d exactly once however often
\* the call is made; the same holds of the record the manager caches.
C10_AddDocIdempotent ==
    /\ [](\A i \in Ids : NoDuplicates(DocsOf(i)) /\ NoDuplicates(CachedDocsOf(1, i)))
    /\ [][\A t \in Tasks : \A i \in Ids : \A d \in Docs :
             (i = call[t].id /\ d = call[t].doc) =>
               /\ (LeavesCs(t, "add_doc_to_dataset") /\ Existed(t)) =>
                     /\ DocsOf(i)' = IF InList(DocsOf(i), d) THEN DocsOf(i)
                                     ELSE Append(DocsOf(i), d)
                     /\ Count(DocsOf(i)', d) = 1
               /\ (MgrAddReturns(t) /\ i \in DOMAIN cache[1]) =>
                     Count(CachedDocsOf(1, i)', d) = 1]_vars

\* d2 has been added to the seeded dataset, whose docs were d1: the table
\* and the manager's cached record both hold d1 then d2.
C10_Witness ==
    /\ Quiescent
    /\ DocsOf("x") = <<"d1", "d2">>
    /\ CachedDocsOf(1, "x") = <<"d1", "d2">>


\* The record r with every absent field of the data model filled in.
Filled(r) ==
    SetDefault(SetDefault(SetDefault(SetDefault(SetDefault(r,
        "name", ""), "description", ""), "created_at", ""), "updated_at", ""),
        "docs", << >>)

\* C11: get_dataset(id) right after create_or_update_dataset(id, r) returns
\* r with absent name, description, created_at, updated_at filled with the
\* empty string and absent docs with the empty sequence, the supplied fields
\* unchanged.
C11_RoundTripDefaults ==
    [][\A t \in Tasks : \A i \in Ids :
          (LeavesCs(t, "create_or_update_dataset") /\ i = call[t].id) =>
              GetDataset(heap, table, i)' = Filled(call[t].meta)]_vars

\* A caller modifies a record it holds: the heap changes while no call
\* moves and neither the table nor the cache is reassigned.
CallerModifies == heap' # heap /\ UNCHANGED <<pc, call, table, cache>>

\* C12: whatever the caller does to the record Store.get_dataset returned,
\* appending to or removing from its docs included, the records of the
\* table stay as they were.
C12_ReturnedCopyIndependent ==
    [][CallerModifies => TableValue' = TableValue]_vars

\* The operations the table keeps a record through.
KeepingOps == {"create_or_update_dataset", "add_doc_to_dataset",
               "remove_doc_from_dataset", "upsert"}

\* C13: from its creation until its deletion a record's created_at never
\* changes, whichever of create_or_update_dataset, add_doc_to_dataset,
\* remove_doc_from_dataset and upsert runs.
C13_CreatedAtFixed ==
    [][\A t \in Tasks : \A i \in Ids :
          (/\ \E op \in KeepingOps : LeavesCs(t, op)
           /\ i \in DOMAIN table
           /\ "created_at" \in DOMAIN TableValue[i]
           /\ i \in DOMAIN table') =>
              /\ "created_at" \in DOMAIN TableValue'[i]
              /\ TableValue'[i].created_at = TableValue[i].created_at]_vars

\* C14: in every reachable state no record of the table names a document
\* twice in its docs.
C14_DocsNoDuplicates == \A i \in DOMAIN table : NoDuplicates(DocsOf(i))

\* The drop() call of task t returns.
DropEnds(t) == call[t].op = "drop" /\ pc[t] # "idle" /\ pc'[t] = "idle"

\* The step raises inside drop(): the clear finds no table to clear, or the
\* flush step found its flag set and leaves it set, the write having failed.
DropRaises(t) ==
    \/ pc[t] = "cs"
    \/ pc[t] = "fcs" /\ flags[ProcOf(t)] /\ flags'[ProcOf(t)]

\* C15: drop() never raises: it returns status "success" or "error", a disk
\* write failure in its flush included, and "error" exactly when an
\* exception occurred during the clear or the flush.
C15_DropNeverRaises ==
    [][\A t \in Tasks : DropEnds(t) =>
          /\ ret'[t] \in {"success", "error"}
          /\ ret'[t] = "error" <=> DropRaises(t)]_vars

\* The only call made was a drop() that cleared the table and set the
\* flags, and whose disk write failed: it returned "error", the file still
\* holds the records.
C15_Witness ==
    /\ calls = 1
    /\ Quiescent
    /\ \E t \in Tasks : ret[t] = "error"
    /\ store[1] = "ready"
    /\ flags[1]
    /\ TableValue = EmptyDict
    /\ file.data # EmptyDict

\* C16: a drop() that returns "success", no other task having mutated the
\* namespace during the call, leaves the table without records and the
\* backing file holding the empty table.
C16_DropEmptiesTableAndFile ==
    [][\A t \in Tasks : (DropEnds(t) /\ ret'[t] = "success") =>
          /\ TableValue' = EmptyDict
          /\ file'.exists
          /\ file'.data = EmptyDict]_vars

\* The seeded table has been dropped by the only call made: drop() returned
\* "success", table and file are empty.
C16_Witness ==
    /\ calls = 1
    /\ seeds = 1
    /\ Quiescent
    /\ \E t \in Tasks : ret[t] = "success"
    /\ TableValue = EmptyDict
    /\ file = [exists |-> TRUE, data |-> EmptyDict]

\* The disk write of task t's flush step fails: the step found the flag set
\* and ends the call leaving it set.
FlushFails(t) ==
    /\ pc[t] = "fcs"
    /\ flags[ProcOf(t)]
    /\ pc'[t] = "idle"
    /\ flags'[ProcOf(t)]

\* C17: when the disk write of the flush step fails during upsert, delete,
\* create_or_update_dataset, delete_dataset, add_doc_to_dataset or
\* remove_doc_from_dataset, the call ends with that failure raised to its
\* caller, whether the Store was called directly or through the
\* LazyStorageProxy and the DatasetManager.
C17_FlushFailurePropagates ==
    [][\A t \in Tasks : (FlushFails(t) /\ call[t].op \in RaisingOps) =>
          ret'[t] = "IOError"]_vars

\* Both tasks' calls, one of them at least made through the DatasetManager,
\* have ended with the disk failure raised; the flag is still set.
C17_Witness ==
    /\ Quiescent
    /\ ret = [t \in Tasks |-> "IOError"]
    /\ proxied[1]
    /\ flags[1]

\* Task t holds what a get_datasets_paginated call returned.
Paged(t) == t \in Pagers /\ pc[t] = "idle" /\ calls > 0

\* What get_datasets_paginated returns on the present table for arguments a.
PageOf(a) == GetDatasetsPaginated(heap, table, a)

\* The pages 1..n for arguments a, one after the other.
RECURSIVE PagesUpTo(_, _)
PagesUpTo(a, n) ==
    IF n = 0 THEN << >>
    ELSE PagesUpTo(a, n - 1) \o PageOf([a EXCEPT !.page = n]).items

\* The sort keys of items run one way: never down, or never up.
InOrder(items, sort_field) ==
    LET key(n) == Rank(SortKey(SortFieldOf(sort_field), items[n][1], items[n][2]))
        pairs == {n \in 1..Len(items) : n < Len(items)}
    IN  \/ \A n \in pairs : key(n) <= key(n + 1)
        \/ \A n \in pairs : key(n) >= key(n + 1)

\* C18: for a fixed table of N records and fixed page_size, sort_field and
\* sort_direction, the pages 1..ceil(N/P), P the clamped page size, put one
\* after the other are the table's records, each exactly once, in sorted
\* order; every call returns total_count N, and a page beyond the last is
\* empty.
C18_PagesPartitionSortedTable ==
    \A t \in Tasks : Paged(t) =>
        LET a == ret[t].args
            r == ret[t].result
            N == Cardinality(DOMAIN table)
            P == ClampPageSize(a.page_size)
            last == (N + P - 1) \div P
            all == PagesUpTo(a, last)
        IN  /\ r.total = N
            /\ Len(all) = N
            /\ \A i \in DOMAIN table :
                  \E n \in 1..N : all[n] = <<i, TableValue[i]>>
            /\ InOrder(all, a.sort_field)
            /\ ClampPage(a.page) > last => r.items = << >>
            /\ ClampPage(a.page) <= last =>
                  r.items = PageOf([a EXCEPT !.page = ClampPage(a.page)]).items

\* The second page of the table of eleven records at page size ten has been
\* returned: one record out of a total of eleven.
C18_Witness ==
    /\ Paged(1)
    /\ ret[1].args.page = 2
    /\ ret[1].result.total = 11
    /\ Len(ret[1].result.items) = 1

\* C19: a call with any sort_direction other than "asc" returns what the
\* call with sort_direction "desc" returns.
C19_NotAscIsDesc ==
    \A t \in Tasks :
        (Paged(t) /\ ret[t].args.sort_direction # "asc") =>
            ret[t].result = PageOf([ret[t].args EXCEPT !.sort_direction = "desc"])

C21_UnknownSortFieldIsUpdatedAt ==
    \A t \in Tasks :
        (Paged(t) /\ ret[t].args.sort_field \notin
                        {"created_at", "updated_at", "name", "id"}) =>
            ret[t].result = PageOf([ret[t].args EXCEPT !.sort_field = "updated_at"])

\* A call with sort_field "size" on the table of eleven records has
\* returned a first page that does not begin with the first record inserted.
C21_Witness ==
    /\ Paged(1)
    /\ ret[1].args.sort_field = "size"
    /\ ret[1].result.total = 11
    /\ Len(ret[1].result.items) = 10
    /\ ret[1].result.items[1][1] # PageIdOrder[1]

\* Task t holds what a call of lookup op returned.
Looked(t, op) == t \in Pagers /\ pc[t] = "idle" /\ calls > 0 /\ ret[t].op = op

\* The name of the table's record i, a record without one having the empty
\* name.
NameOf(i) == Get(TableValue[i], "name", << >>)

\* Characters c and d are the same letter, in whichever case.
SameLetter(c, d) ==
    \/ c = d
    \/ <<c, d>> \in {<<"a", "A">>, <<"A", "a">>, <<"c", "C">>, <<"C", "c">>}

\* Strings a and b are equal ignoring letter case.
EqualIgnoringCase(a, b) ==
    /\ Len(a) = Len(b)
    /\ \A n \in 1..Len(a) : SameLetter(a[n], b[n])

\* String b has a stretch equal to a ignoring letter case.
ContainsIgnoringCase(b, a) ==
    \E n \in 0..(Len(b) - Len(a)) :
        EqualIgnoringCase(SubSeq(b, n + 1, n + Len(a)), a)

\* C22: get_dataset_by_exact_name(name) returns a record of the table whose
\* name equals the argument ignoring letter case whenever there is one,
\* never a record whose name differs otherwise (containing the argument is
\* not enough), and None when no record matches.
C22_ExactNameIgnoresCaseOnly ==
    \A t \in Tasks : Looked(t, "get_dataset_by_exact_name") =>
        LET q == ret[t].name
            r == ret[t].result
            matching == {i \in DOMAIN table : EqualIgnoringCase(NameOf(i), q)}
        IN  IF matching = {} THEN r = NoneValue
            ELSE \E i \in matching : r = TableValue[i]

\* The table holds a record named "AC" and one named "caC"; the lookup of
\* "Ac" has returned the first.
C22_Witness ==
    /\ Looked(1, "get_dataset_by_exact_name")
    /\ ret[1].name = <<"A", "c">>
    /\ ret[1].result = [name |-> <<"A", "C">>]
    /\ \E i \in DOMAIN table : NameOf(i) = <<"c", "a", "C">>

\* C23: search_datasets_by_name(keyword) returns the mapping from exactly
\* the ids of the records whose name contains keyword ignoring letter case
\* to these records; the empty mapping when there is none.
C23_SearchFindsAllContaining ==
    \A t \in Tasks : Looked(t, "search_datasets_by_name") =>
        LET q == ret[t].name
            r == ret[t].result
        IN  /\ DOMAIN r =
                  {i \in DOMAIN table : ContainsIgnoringCase(NameOf(i), q)}
            /\ \A i \in DOMAIN r : r[i] = TableValue[i]

\* The search for "C" has found both records of the table, named "ac" and
\* "AC".
C23_Witness ==
    /\ Looked(1, "search_datasets_by_name")
    /\ ret[1].name = <<"C">>
    /\ Cardinality(DOMAIN ret[1].result) = 2
    /\ \E i \in DOMAIN table : NameOf(i) = <<"a", "c">>
    /\ \E i \in DOMAIN table : NameOf(i) = <<"A", "C">>

\* C24: the file a flush step writes is the table as it is at the moment of
\* the write, the mutations other tasks made since the triggering call's
\* own included.
C24_FlushWritesCurrentTable ==
    [][\A t \in Tasks : FlushWrote(t) =>
          file' = [exists |-> TRUE, data |-> TableValue]]_vars

\* Two calls have changed x and y; one flush step wrote both changes and
\* the other call's flush step found nothing left to write.
C24_Witness ==
    /\ Quiescent
    /\ calls = 2
    /\ \E t, u \in Tasks : ret[t] = "wrote" /\ ret[u] = "ok"
    /\ DOMAIN TableValue = {"x", "y"}
    /\ TableValue["x"].name = "a"
    /\ file.data = TableValue

\* The manager of task t's process calls the Store's get_dataset.
ConsultsStore(t) ==
    /\ pc[t] = "idle"
    /\ pc'[t] # "idle"
    /\ call'[t].via = "mgr"
    /\ call'[t].op = "get_dataset"

\* The Store's get_dataset returns to the manager of task t's process.
MgrGetReturns(t) ==
    /\ pc[t] = "cs"
    /\ call[t].via = "mgr"
    /\ call[t].op = "get_dataset"
    /\ pc'[t] = "idle"

\* The content of the record process p's manager caches for id.
CachedValue(p, id) == Deep(heap, cache[p][id])

\* C25: DatasetManager.get_dataset(id) calls the Store only when id is not
\* in its cache and otherwise returns the cached record at once; what
\* another process does to the table leaves the cached records as they
\* were; an id the Store does not have is not cached, and a record the
\* Store returns is the table's and is cached.
C25_CacheServesUntilMiss ==
    [][/\ \A t \in Tasks : \A i \in Ids :
            /\ (ConsultsStore(t) /\ i = call'[t].id) =>
                  i \notin DOMAIN cache[ProcOf(t)]
            /\ (MgrGetReturns(t) /\ i = call[t].id) =>
                  IF GetDataset(heap, table, i) = NoneValue
                  THEN i \notin DOMAIN cache'[ProcOf(t)]
                  ELSE /\ i \in DOMAIN cache'[ProcOf(t)]
                       /\ CachedValue(ProcOf(t), i)' = TableValue[i]
       /\ (pc'[1] = pc[1] /\ ret'[1] = ret[1]) =>
            /\ DOMAIN cache'[1] = DOMAIN cache[1]
            /\ \A i \in DOMAIN cache[1] :
                  CachedValue(1, i)' = CachedValue(1, i)
       /\ (pc[1] = "idle" /\ pc'[1] = "idle" /\ ret'[1] # ret[1]) =>
            /\ ret'[1] = "cached"
            /\ UNCHANGED <<heap, table, cache, lock, flags, file>>]_vars

\* The manager of process 1 has returned the record of x from its cache;
\* process 2 has deleted x from the table, the cache still holds it.
C25_Witness ==
    /\ Quiescent
    /\ ret[1] = "cached"
    /\ ret[2] = "wrote"
    /\ "x" \in DOMAIN cache[1]
    /\ "x" \notin DOMAIN table

\* Task t's call is cancelled while it waits for the lock.
CancelledWaiting(t) == pc[t] = "acq" /\ pc'[t] = "idle"

C27_FileIsTableWhenUnflagged ==
    (seeds = 1 /\ lock = NoTask /\ \A p \in Procs : ~flags[p]) =>
        FileValue = TableValue

\* C28: when the disk write of a flush step fails, the table keeps the
\* mutation (nothing is rolled back), the file is as it was and the
\* pending-flush flag is set in every process; the flags are cleared by
\* nothing but a flush step that writes the table as it is then, so the next
\* flush step of any process, unless its write fails too, puts the mutation
\* in the file.
C28_FailedWriteIsRetried ==
    [][/\ \A t \in Tasks :
            FlushFails(t) =>
                /\ ret'[t] = "IOError"
                /\ TableValue' = TableValue
                /\ file' = file
                /\ flags' = SetAllUpdateFlags
                /\ call[t].op = "create_or_update_dataset" =>
                      call[t].id \in DOMAIN TableValue'
       /\ \A t \in Tasks :
            (pc[t] = "fcs" /\ flags[ProcOf(t)] /\ pc'[t] = "idle") =>
                \/ FlushFails(t)
                \/ /\ file' = [exists |-> TRUE, data |-> TableValue]
                   /\ TableValue' = TableValue
       /\ (\E p \in Procs : flags[p] /\ ~flags'[p]) =>
            \E t \in Tasks : FlushWrote(t)]_vars

\* One call ended with the disk failure raised; a later flush step of the
\* other process wrote the table, record x included, and cleared the flags.
C28_Witness ==
    /\ Quiescent
    /\ \E t, u \in Tasks :
          /\ ProcOf(t) # ProcOf(u)
          /\ ret[t] = "IOError"
          /\ ret[u] = "wrote"
    /\ flags = ClearAllUpdateFlags
    /\ "x" \in DOMAIN TableValue
    /\ file = [exists |-> TRUE, data |-> TableValue]

\* Names n and m are equal ignoring case and surrounding whitespace.
SameDatasetName(n, m) == LowerChars(Strip(n)) = LowerChars(Strip(m))

\* C29: under any interleaving of create_dataset requests the table never
\* holds two records whose names are equal ignoring case and surrounding
\* whitespace.
C29_CreatedNamesUnique ==
    \A i, j \in DOMAIN table :
        i # j => ~SameDatasetName(TableValue[i].name, TableValue[j].name)

\* C30: at the end of a flush step whose write succeeded, with a conflict
\* and a re-load of the file or without, the table's content is the file's
\* content, every record the table had that is not in the file is gone from
\* it, and the pending-flush flag is clear.
C30_ReloadedTableIsFile ==
    [][\A t \in Tasks : FlushWrote(t) =>
          /\ file'.exists
          /\ TableValue' = file'.data
          /\ \A i \in DOMAIN TableValue :
                i \notin DOMAIN file'.data => i \notin DOMAIN TableValue'
          /\ \A p \in Procs : ~flags'[p]]_vars

\* The only call, an upsert of x and y on an empty deployment, met a
\* conflict: the file was written without x and the table re-loaded from it.
C30_Witness ==
    /\ calls = 1
    /\ Quiescent
    /\ \E t \in Tasks : ret[t] = "wrote"
    /\ DOMAIN TableValue = {"y"}
    /\ file = [exists |-> TRUE, data |-> TableValue]
    /\ \A p \in Procs : ~flags[p]

\* Task t leaves the critical section of an add_doc_to_dataset call whose
\* dataset id is not in the table.
AddsToAbsent(t) ==
    /\ LeavesCs(t, "add_doc_to_dataset")
    /\ call[t].id \notin DOMAIN table

\* C31: add_doc_to_dataset(id, doc_id) for an id that is not in the table
\* returns from its critical section at once, without a flush step: no
\* record is created, table, flags and file stay as they are; and a
\* DatasetManager.add_doc_to_dataset call for an id its cache does not hold
\* returns with the cache still not holding it.
C31_AddDocToAbsentIsNoOp ==
    [][\A t \in Tasks :
          /\ AddsToAbsent(t) =>
                /\ pc'[t] = "idle"
                /\ ret'[t] = "ok"
                /\ call[t].id \notin DOMAIN table'
                /\ TableValue' = TableValue
                /\ flags' = flags
                /\ file' = file
          /\ (MgrAddReturns(t) /\ call[t].id \notin DOMAIN cache[ProcOf(t)]) =>
                call[t].id \notin DOMAIN cache'[ProcOf(t)]]_vars

\* A DatasetManager.add_doc_to_dataset call is in its critical section on a
\* table and a cache without record x, while an earlier mutation of another
\* task awaits its flush: the flag is set and the file not yet written.
C31_Witness ==
    \E t \in Tasks :
        /\ InCs(t, "add_doc_to_dataset")
        /\ call[t].via = "mgr"
        /\ call[t].id \notin DOMAIN table
        /\ call[t].id \notin DOMAIN cache[ProcOf(t)]
        /\ flags[ProcOf(t)]

\* The sort key of item e under arguments a, as a rank, and the place of the
\* item's id in the table's iteration order.
KeyRank(a, e) == Rank(SortKey(SortFieldOf(a.sort_field), e[1], e[2]))
IterationPlace(e) == IndexOf(PageIdOrder, e[1])

\* In items, of any two items the earlier has the smaller key (the greater
\* when descending) or, the keys being equal, the earlier place in the
\* table's iteration order.
StablySorted(items, a, descending) ==
    \A m, n \in 1..Len(items) : m < n =>
        \/ /\ ~descending
           /\ KeyRank(a, items[m]) < KeyRank(a, items[n])
        \/ /\ descending
           /\ KeyRank(a, items[m]) > KeyRank(a, items[n])
        \/ /\ KeyRank(a, items[m]) = KeyRank(a, items[n])
           /\ IterationPlace(items[m]) < IterationPlace(items[n])

\* C32: get_datasets_paginated sorts stably in both directions: in the full
\* sorted sequence, and so in every page returned, records of equal sort key
\* are in the table's iteration order for "asc" and for "desc" alike, and
\* records of different keys are in ascending key order for "asc" and in
\* descending key order for "desc".
C32_SortStableBothWays ==
    \A t \in Tasks :
        (Paged(t) /\ ret[t].args.sort_direction \in {"asc", "desc"}) =>
            LET a == ret[t].args
                N == Cardinality(DOMAIN table)
                P == ClampPageSize(a.page_size)
                all == PagesUpTo(a, (N + P - 1) \div P)
                descending == a.sort_direction = "desc"
            IN  /\ Len(all) = N
                /\ StablySorted(all, a, descending)
                /\ StablySorted(ret[t].result.items, a, descending)

\* A descending page of the table of eleven records sorted by created_at
\* has been returned, in which k03 and k02, of one created_at and iterated in
\* that order, follow each other in that order.
C32_Witness ==
    /\ Paged(1)
    /\ ret[1].args.sort_direction = "desc"
    /\ ret[1].args.sort_field = "created_at"
    /\ ret[1].result.total = 11
    /\ \E n \in 1..(Len(ret[1].result.items) - 1) :
          LET items == ret[1].result.items
          IN  /\ KeyRank(ret[1].args, items[n]) = KeyRank(ret[1].args, items[n + 1])
              /\ items[n][1] = "k03"
              /\ items[n + 1][1] = "k02"

=============================================================================
